---------------------------- MODULE Spec2Model ----------------------------
(***************************************************************************)
(* Model of src/libkfont/kdfontop.c : negotiated access to the console     *)
(* font through the three generations of the font ioctl interface          *)
(* (KDFONTOP, GIO_FONTX/PIO_FONTX, GIO_FONT/PIO_FONT) plus PIO_FONTRESET.  *)
(*                                                                         *)
(* The kernel is the environment: every ioctl() is answered by a           *)
(* nondeterministically chosen outcome (success, or failure with one of    *)
(* the errno values in DevErrnos).  Every public function is modelled      *)
(* step by step, one action per device call, with the control flow that    *)
(* follows the call folded into the same action.  The functions keep no    *)
(* state between calls, so a behaviour is one public call: it starts in    *)
(* "idle" with errno as earlier calls may have left it and ends in "done". *)
(***************************************************************************)
EXTENDS Integers, Sequences, FiniteSets, TLC

(***************************************************************************)
(* Bounds of the model                                                     *)
(***************************************************************************)
\* largest number of nonzero bytes in a glyph buffer handed to kfont_put_font
MaxNz == 1

\* largest glyph count of a buffer handed to font_charheight on its own
MaxHGlyphs == 2

\* largest number of nonzero bytes in such a buffer
MaxHNz == 2

(***************************************************************************)
(* Program constants                                                       *)
(***************************************************************************)
USHRT_MAX == 65535

\* every glyph slot has 32 rows
GlyphRows == 32

\* width used when the caller passes 0, and the only width of the old tiers
DefaultWidth == 8

\* the glyph count of the legacy interface
LegacyCount == 256

\* the second canonical count of the count-rounding retry
DoubleCount == 512

\* return values of the probes
RetOk == 0

RetErr == 0 - 1

RetNotSupported == 1

(***************************************************************************)
(* Inputs of the model                                                     *)
(***************************************************************************)
\* errno values a failing ioctl() may leave; "EIO" stands for every value
\* other than ENOSYS and EINVAL
DevErrnos == {"ENOSYS", "EINVAL", "EIO"}

\* outcome of a device call: "OK" or the errno of the failure
DevOutcomes == {"OK"} \cup DevErrnos

\* errno as earlier calls of the process may have left it
EntryErrnos == {"0", "EINVAL"}

\* geometry a successful read may report
DevCounts == {128, 256}

DevWidths == {8, 16}

DevHeights == {14, 16}

\* counts the caller of kfont_get_font asks for
GetCounts == {0, 256, 512, USHRT_MAX, USHRT_MAX + 1}

\* values the caller's width/height variables hold before kfont_get_font
CallerOld == {0, 7}

\* counts, widths and heights handed to kfont_put_font
PutCounts == {1, 100, 256, 300, 512, USHRT_MAX + 101}

PutWidths == {0, 8, 16}

PutHeights == {0, 16}

\* rows (0-indexed) in which the model places nonzero bytes
TestRows == {13, 31}

(***************************************************************************)
(* Glyph buffers.  A buffer is a record [null, size, nz]: null says the    *)
(* pointer is NULL, size is the number of bytes, nz the set of pairs       *)
(* <<index, value>> of its nonzero bytes; every other byte is zero.        *)
(***************************************************************************)
NullBuf == [null |-> TRUE, size |-> 0, nz |-> {}]

Byte(b, k) == IF \E p \in b.nz : p[1] = k
              THEN (CHOOSE p \in b.nz : p[1] = k)[2]
              ELSE 0

bytewidth(w) == (w + 7) \div 8

\* the buffers of count glyphs of width w the model hands to kfont_put_font:
\* at most MaxNz nonzero bytes, in the first or last glyph, in a row of
\* TestRows, in the last byte column
NzPositions(cnt, w) ==
    { (GlyphRows * i + r) * bytewidth(w) + x :
         i \in {0, cnt - 1}, r \in TestRows, x \in {bytewidth(w) - 1} }

\* the subsets of S of at most n elements
RECURSIVE SubsetsUpTo(_, _)
SubsetsUpTo(S, n) ==
    IF n = 0 THEN {{}}
    ELSE LET smaller == SubsetsUpTo(S, n - 1)
         IN smaller \cup { T \cup {x} : T \in smaller, x \in S }

PutBuffers(cnt, w) ==
    { [null |-> FALSE,
       size |-> cnt * GlyphRows * bytewidth(w),
       nz   |-> { <<k, 255>> : k \in S }] :
         S \in SubsetsUpTo(NzPositions(cnt, w), MaxNz) }

(***************************************************************************)
(* font_charheight: scan row index h from 32 down to 1; the first h for    *)
(* which some glyph has a nonzero byte in row h-1 is returned, 0 when the  *)
(* loops run out.                                                          *)
(***************************************************************************)
\* variant: the row index is not brought back to 0..31
RowNonzeroSkewed(b, cnt, w, h) ==
    \E i \in 0 .. cnt - 1 : \E x \in 0 .. bytewidth(w) - 1 :
        Byte(b, (GlyphRows * i + h) * bytewidth(w) + x) # 0

RowNonzero(b, cnt, w, h) ==
    \E i \in 0 .. cnt - 1 : \E x \in 0 .. bytewidth(w) - 1 :
        Byte(b, (GlyphRows * i + h - 1) * bytewidth(w) + x) # 0

RECURSIVE ScanFrom(_, _, _, _)
ScanFrom(b, cnt, w, h) ==
    IF h > 0
    THEN IF RowNonzero(b, cnt, w, h) THEN h ELSE ScanFrom(b, cnt, w, h - 1)
    ELSE h

font_charheight(b, cnt, w) == ScanFrom(b, cnt, w, GlyphRows)

(***************************************************************************)
(* State                                                                   *)
(***************************************************************************)
VARIABLES
    pc,       \* position in the public function: "idle" before the call,
              \* "done" once it has returned
    op,       \* the public function running or last returned
    arg,      \* its arguments as passed by the caller
    buf,      \* the buf parameter
    count,    \* *count of kfont_get_font, count of kfont_put_font
    width,    \* *width of kfont_get_font, width of kfont_put_font
    height,   \* *height of kfont_get_font, height of kfont_put_font
    errno,    \* the process's errno
    cfo,      \* struct console_font_op of kfont_put_font
    mybuf,    \* scratch buffer of kfont_put_font: [state, mem]
    ret,      \* value returned by the function that returned last
    calls,    \* the ioctl() calls made by the running public function
    probes,   \* the read probes run by kfont_get_font, with their results
    deref     \* the pointers the function itself has read or written through

vars == <<pc, op, arg, buf, count, width, height, errno, cfo, mybuf, ret,
          calls, probes, deref>>

NoCfo == [width |-> 0, height |-> 0, charcount |-> 0, data |-> "NULL"]

NoMybuf == [state |-> "none", mem |-> NullBuf]

NoArg == [buf |-> NullBuf, count |-> 0, width |-> 0, height |-> 0,
          wptr |-> FALSE, hptr |-> FALSE]

\* one ioctl(): the request, the fields handed to the kernel (a field the
\* request does not carry is -1), the pointer passed as data, the state of
\* the scratch buffer and the bytes behind the pointer at the time of the
\* call, and the kernel's answer
DevCall(req, cnt, w, h, ptr, mem, out) ==
    [req |-> req, count |-> cnt, width |-> w, height |-> h, data |-> ptr,
     scratch |-> mybuf.state, mem |-> mem, out |-> out]

BufPtr == IF buf.null THEN "NULL" ELSE "buf"

Init ==
    /\ pc = "idle"
    /\ op = "none"
    /\ arg = NoArg
    /\ buf = NullBuf
    /\ count = 0
    /\ width = 0
    /\ height = 0
    /\ errno \in EntryErrnos
    /\ cfo = NoCfo
    /\ mybuf = NoMybuf
    /\ ret = 0
    /\ calls = <<>>
    /\ probes = <<>>
    /\ deref = {}

(***************************************************************************)
(* kfont_restore_font                                                      *)
(***************************************************************************)
\* variant: the result of the ioctl() is not looked at
RestoreResultIgnored(out) == RetOk

\* "if (ioctl(fd, PIO_FONTRESET, 0)) return -1; return 0;"
RestoreResult(out) == IF out = "OK" THEN RetOk ELSE RetErr

kfont_restore_font ==
    /\ pc = "idle"
    /\ \E out \in DevOutcomes :
          /\ calls' = <<DevCall("PIO_FONTRESET", -1, -1, -1, "NULL", NullBuf, out)>>
          /\ errno' = IF out = "OK" THEN errno ELSE out
          /\ ret' = RestoreResult(out)
    /\ op' = "restore"
    /\ pc' = "done"
    /\ UNCHANGED <<arg, buf, count, width, height, cfo, mybuf, probes, deref>>

(***************************************************************************)
(* kfont_get_font and its three probes                                     *)
(***************************************************************************)
\* arguments of kfont_get_font: buf may be NULL, width and height may be
\* NULL; w0 and h0 are what the caller's variables hold before the call
GetInputs ==
    { [buf |-> b, count |-> c, width |-> w0, height |-> h0,
       wptr |-> wp, hptr |-> hp] :
         b \in {NullBuf, [null |-> FALSE, size |-> 0, nz |-> {}]},
         c \in GetCounts, w0 \in CallerOld, h0 \in CallerOld,
         wp \in BOOLEAN, hp \in BOOLEAN }

\* what the kernel answers to a read request
GetAnswers ==
    { [out |-> "OK", count |-> c, width |-> w, height |-> h] :
         c \in DevCounts, w \in DevWidths, h \in DevHeights }
    \cup { [out |-> e, count |-> 0, width |-> 0, height |-> 0] : e \in DevErrnos }

\* a failed KDFONTOP or GIO_FONTX: -1 unless errno is ENOSYS or EINVAL
ProbeFailure(e) ==
    IF e # "ENOSYS" /\ e # "EINVAL" THEN RetErr ELSE RetNotSupported

\* variant: only a failure ends the cascade
CascadeReturnsOnErrorOnly(r) == r < 0

\* "if (ret <= 0) return ret;" after the first and the second probe
CascadeReturns(r) == r <= 0

\* kfont_get_font returns r: to kfont_get_fontsize or to the caller
GetReturn(r) ==
    /\ ret' = r
    /\ pc' = IF op = "fontsize" THEN "fontsize_ret" ELSE "done"

kfont_get_font ==
    /\ pc = "idle"
    /\ \E in \in GetInputs :
          /\ arg' = in
          /\ buf' = in.buf
          /\ count' = in.count
          /\ width' = in.width
          /\ height' = in.height
    /\ op' = "get"
    /\ pc' = "get_kdfontop"
    /\ UNCHANGED <<errno, ret, cfo, mybuf, calls, probes, deref>>

\* the outcome of a probe, as a record: its return value, the values it
\* leaves in *count, *width, *height and errno, and the ioctl() it made
\* variant: *count is written before the result of the ioctl() is tested
Tier1ProbeEarlyWrite(a) ==
    LET r == IF a.out = "OK" THEN RetOk ELSE ProbeFailure(a.out) IN
    [ret    |-> r,
     count  |-> a.count,
     height |-> IF r = RetOk /\ arg.hptr THEN a.height ELSE height,
     width  |-> IF r = RetOk /\ arg.wptr THEN a.width ELSE width,
     errno  |-> IF a.out = "OK" THEN "0" ELSE a.out,
     calls  |-> <<DevCall("KDFONTOP_GET", count, GlyphRows, GlyphRows,
                          BufPtr, buf, a.out)>>]

Tier1Probe(a) ==
    LET r == IF a.out = "OK" THEN RetOk ELSE ProbeFailure(a.out) IN
    [ret    |-> r,
     count  |-> IF r = RetOk THEN a.count ELSE count,
     height |-> IF r = RetOk /\ arg.hptr THEN a.height ELSE height,
     width  |-> IF r = RetOk /\ arg.wptr THEN a.width ELSE width,
     errno  |-> IF a.out = "OK" THEN "0" ELSE a.out,
     calls  |-> <<DevCall("KDFONTOP_GET", count, GlyphRows, GlyphRows,
                          BufPtr, buf, a.out)>>]

\* variant: the check of the count against USHRT_MAX is missing
Tier2ProbeNoCeiling(a) ==
    LET r == IF a.out = "OK" THEN RetOk ELSE ProbeFailure(a.out) IN
    [ret    |-> r,
     count  |-> IF r = RetOk THEN a.count ELSE count,
     height |-> IF r = RetOk /\ arg.hptr THEN a.height ELSE height,
     width  |-> IF r = RetOk /\ arg.wptr THEN DefaultWidth ELSE width,
     errno  |-> IF a.out = "OK" THEN "0" ELSE a.out,
     calls  |-> <<DevCall("GIO_FONTX", count % (USHRT_MAX + 1), -1, 0,
                          BufPtr, buf, a.out)>>]

\* variant: the width is taken from the kernel's answer
Tier2ProbeDeviceWidth(a) ==
    IF count > USHRT_MAX
    THEN [ret |-> RetErr, count |-> count, height |-> height,
          width |-> width, errno |-> errno, calls |-> <<>>]
    ELSE LET r == IF a.out = "OK" THEN RetOk ELSE ProbeFailure(a.out) IN
         [ret    |-> r,
          count  |-> IF r = RetOk THEN a.count ELSE count,
          height |-> IF r = RetOk /\ arg.hptr THEN a.height ELSE height,
          width  |-> IF r = RetOk /\ arg.wptr THEN a.width ELSE width,
          errno  |-> IF a.out = "OK" THEN "0" ELSE a.out,
          calls  |-> <<DevCall("GIO_FONTX", count % (USHRT_MAX + 1), -1, 0,
                               BufPtr, buf, a.out)>>]

Tier2Probe(a) ==
    IF count > USHRT_MAX
    THEN [ret |-> RetErr, count |-> count, height |-> height,
          width |-> width, errno |-> errno, calls |-> <<>>]
    ELSE LET r == IF a.out = "OK" THEN RetOk ELSE ProbeFailure(a.out) IN
         [ret    |-> r,
          count  |-> IF r = RetOk THEN a.count ELSE count,
          height |-> IF r = RetOk /\ arg.hptr THEN a.height ELSE height,
          width  |-> IF r = RetOk /\ arg.wptr THEN DefaultWidth ELSE width,
          errno  |-> IF a.out = "OK" THEN "0" ELSE a.out,
          calls  |-> <<DevCall("GIO_FONTX", count % (USHRT_MAX + 1), -1, 0,
                               BufPtr, buf, a.out)>>]

\* variant: the check of the count is missing
Tier3ProbeNoCountCheck(a) ==
    IF buf.null
    THEN [ret |-> RetErr, count |-> count, height |-> height,
          width |-> width, errno |-> errno, calls |-> <<>>]
    ELSE LET r == IF a.out = "OK" THEN RetOk ELSE RetErr IN
         [ret    |-> r,
          count  |-> IF r = RetOk THEN LegacyCount ELSE count,
          height |-> IF r = RetOk /\ arg.hptr THEN 0 ELSE height,
          width  |-> IF r = RetOk /\ arg.wptr THEN DefaultWidth ELSE width,
          errno  |-> IF a.out = "OK" THEN "0" ELSE a.out,
          calls  |-> <<DevCall("GIO_FONT", -1, -1, -1, BufPtr, buf, a.out)>>]

\* variant: the check of buf is missing
Tier3ProbeNoBufCheck(a) ==
    IF count # LegacyCount
    THEN [ret |-> RetErr, count |-> count, height |-> height,
          width |-> width, errno |-> errno, calls |-> <<>>]
    ELSE LET r == IF a.out = "OK" THEN RetOk ELSE RetErr IN
         [ret    |-> r,
          count  |-> IF r = RetOk THEN LegacyCount ELSE count,
          height |-> IF r = RetOk /\ arg.hptr THEN 0 ELSE height,
          width  |-> IF r = RetOk /\ arg.wptr THEN DefaultWidth ELSE width,
          errno  |-> IF a.out = "OK" THEN "0" ELSE a.out,
          calls  |-> <<DevCall("GIO_FONT", -1, -1, -1, BufPtr, buf, a.out)>>]

\* variant: a failed GIO_FONT is classified like the other two probes
Tier3ProbeClassifying(a) ==
    IF count # LegacyCount \/ buf.null
    THEN [ret |-> RetErr, count |-> count, height |-> height,
          width |-> width, errno |-> errno, calls |-> <<>>]
    ELSE LET r == IF a.out = "OK" THEN RetOk ELSE ProbeFailure(a.out) IN
         [ret    |-> r,
          count  |-> IF r = RetOk THEN LegacyCount ELSE count,
          height |-> IF r = RetOk /\ arg.hptr THEN 0 ELSE height,
          width  |-> IF r = RetOk /\ arg.wptr THEN DefaultWidth ELSE width,
          errno  |-> IF a.out = "OK" THEN "0" ELSE a.out,
          calls  |-> <<DevCall("GIO_FONT", -1, -1, -1, BufPtr, buf, a.out)>>]

Tier3Probe(a) ==
    IF count # LegacyCount \/ buf.null
    THEN [ret |-> RetErr, count |-> count, height |-> height,
          width |-> width, errno |-> errno, calls |-> <<>>]
    ELSE LET r == IF a.out = "OK" THEN RetOk ELSE RetErr IN
         [ret    |-> r,
          count  |-> IF r = RetOk THEN LegacyCount ELSE count,
          height |-> IF r = RetOk /\ arg.hptr THEN 0 ELSE height,
          width  |-> IF r = RetOk /\ arg.wptr THEN DefaultWidth ELSE width,
          errno  |-> IF a.out = "OK" THEN "0" ELSE a.out,
          calls  |-> <<DevCall("GIO_FONT", -1, -1, -1, BufPtr, buf, a.out)>>]

\* the effect of a probe on the state
RunProbe(tier, p, a) ==
    /\ count' = p.count
    /\ height' = p.height
    /\ width' = p.width
    /\ errno' = p.errno
    /\ calls' = calls \o p.calls
    /\ probes' = Append(probes, [tier |-> tier, ret |-> p.ret,
                                 called |-> Len(p.calls) > 0, ans |-> a])

\* First attempt: KDFONTOP
get_font_kdfontop ==
    /\ pc = "get_kdfontop"
    /\ \E a \in GetAnswers :
          LET p == Tier1Probe(a) IN
          /\ RunProbe(1, p, a)
          /\ IF CascadeReturns(p.ret)
             THEN GetReturn(p.ret)
             ELSE pc' = "get_giofontx" /\ ret' = ret
    /\ UNCHANGED <<op, arg, buf, cfo, mybuf, deref>>

\* Second attempt: GIO_FONTX
get_font_giofontx ==
    /\ pc = "get_giofontx"
    /\ \E a \in GetAnswers :
          LET p == Tier2Probe(a) IN
          /\ RunProbe(2, p, a)
          /\ IF CascadeReturns(p.ret)
             THEN GetReturn(p.ret)
             ELSE pc' = "get_giofont" /\ ret' = ret
    /\ UNCHANGED <<op, arg, buf, cfo, mybuf, deref>>

\* Third attempt: GIO_FONT
get_font_giofont ==
    /\ pc = "get_giofont"
    /\ \E a \in GetAnswers :
          LET p == Tier3Probe(a) IN
          /\ RunProbe(3, p, a)
          /\ GetReturn(p.ret)
    /\ UNCHANGED <<op, arg, buf, cfo, mybuf, deref>>

(***************************************************************************)
(* kfont_get_fontsize                                                      *)
(***************************************************************************)
\* unsigned int count = 0; kfont_get_font(ctx, fd, NULL, &count, NULL, NULL)
kfont_get_fontsize ==
    /\ pc = "idle"
    /\ op' = "fontsize"
    /\ arg' = NoArg
    /\ buf' = NullBuf
    /\ count' = 0
    /\ pc' = "get_kdfontop"
    /\ UNCHANGED <<width, height, errno, ret, cfo, mybuf, calls, probes,
                   deref>>

\* variant: the failure of kfont_get_font is handed on
FontsizeResultRaw(r, c) == IF r = 0 THEN c ELSE r

\* "if (!kfont_get_font(...)) return count; return 256;"
FontsizeResult(r, c) == IF r = 0 THEN c ELSE LegacyCount

kfont_get_fontsize_return ==
    /\ pc = "fontsize_ret"
    /\ ret' = FontsizeResult(ret, count)
    /\ pc' = "done"
    /\ UNCHANGED <<op, arg, buf, count, width, height, errno, cfo, mybuf,
                   calls, probes, deref>>

(***************************************************************************)
(* kfont_put_font                                                          *)
(***************************************************************************)
\* variant: a width of 0 is passed on
ResolveWidthNone(w) == w

\* "if (!width) width = 8;"
ResolveWidth(w) == IF w = 0 THEN DefaultWidth ELSE w

\* "if (!height) height = font_charheight(buf, count, width);"
ResolveHeight(b, c, w, h) == IF h = 0 THEN font_charheight(b, c, w) ELSE h

\* arguments of kfont_put_font; buf holds count glyphs of the resolved
\* width.  The count above USHRT_MAX comes with a height, which keeps the
\* scan of font_charheight off a buffer of two million bytes.
PutInputsOf(c, w) ==
    { [buf |-> b, count |-> c, width |-> w, height |-> h,
       wptr |-> FALSE, hptr |-> FALSE] :
         h \in { x \in PutHeights : c > USHRT_MAX => x # 0 },
         b \in PutBuffers(c, ResolveWidth(w)) }

PutInputs == UNION { PutInputsOf(c, w) : c \in PutCounts, w \in PutWidths }

\* variant: the width is not looked at
Tier1TerminalErrnoOnly(w, e) == e # "ENOSYS" /\ e # "EINVAL"

\* "if (width != 8 || (errno != ENOSYS && errno != EINVAL)) return -1;"
Tier1Terminal(w, e) == w # DefaultWidth \/ (e # "ENOSYS" /\ e # "EINVAL")

\* variant: the retry is made whatever errno the first attempt left
RetryCondAnyErrno(e, w, c) ==
    w = DefaultWidth /\ c # LegacyCount /\ c < DoubleCount

\* "if (errno == EINVAL && width == 8 && count != 256 && count < 512)"
RetryCond(e, w, c) ==
    e = "EINVAL" /\ w = DefaultWidth /\ c # LegacyCount /\ c < DoubleCount

\* variant: the count is always rounded to 256
RoundCountAlwaysLegacy(c) == LegacyCount

\* variant: the count is not rounded
RoundCountNone(c) == c

\* "ct = ((count > 256) ? 512 : 256)"
RoundCount(c) == IF c > LegacyCount THEN DoubleCount ELSE LegacyCount

\* variant: the memcpy of the caller's glyphs is missing
ScratchNoCopy(b, c, ct) ==
    [null |-> FALSE, size |-> GlyphRows * ct, nz |-> {}]

\* malloc(32U * ct); memset(mybuf, 0, 32U * ct); memcpy(mybuf, buf, 32U * count)
Scratch(b, c, ct) ==
    [null |-> FALSE,
     size |-> GlyphRows * ct,
     nz   |-> { p \in b.nz : p[1] < GlyphRows * c }]

\* variant: || in place of &&, every failure of PIO_FONTX is terminal
Tier2TerminalAlways(e) == e # "ENOSYS" \/ e # "EINVAL"

\* "if (errno != ENOSYS && errno != EINVAL) return -1;" after PIO_FONTX
Tier2Terminal(e) == e # "ENOSYS" /\ e # "EINVAL"

PutReturn(r) ==
    /\ ret' = r
    /\ pc' = "done"

\* entry: defaults resolved, cfo filled in
kfont_put_font ==
    /\ pc = "idle"
    /\ \E in \in PutInputs :
          LET w == ResolveWidth(in.width)
              h == ResolveHeight(in.buf, in.count, w, in.height) IN
          /\ arg' = in
          /\ buf' = in.buf
          /\ count' = in.count
          /\ width' = w
          /\ height' = h
          /\ cfo' = [width |-> w, height |-> h, charcount |-> in.count,
                     data |-> "buf"]
          /\ deref' = IF in.height = 0 THEN {"buf"} ELSE {}
    /\ op' = "put"
    /\ pc' = "put_kdfontop"
    /\ UNCHANGED <<errno, ret, mybuf, calls, probes>>

\* First attempt: KDFONTOP
put_kdfontop ==
    /\ pc = "put_kdfontop"
    /\ \E out \in DevOutcomes :
          /\ calls' = Append(calls, DevCall("KDFONTOP_SET", cfo.charcount,
                                 cfo.width, cfo.height, cfo.data, buf, out))
          /\ IF out = "OK"
             THEN /\ PutReturn(RetOk)
                  /\ errno' = errno
             ELSE /\ errno' = out
                  /\ IF Tier1Terminal(width, out)
                     THEN PutReturn(RetErr)
                     ELSE /\ pc' = IF RetryCond(out, width, count)
                                   THEN "put_malloc" ELSE "put_fontx"
                          /\ ret' = ret
    /\ UNCHANGED <<op, arg, buf, count, width, height, cfo, mybuf, probes,
                   deref>>

\* Variation on first attempt: the scratch buffer
put_malloc ==
    /\ pc = "put_malloc"
    /\ \E ok \in BOOLEAN :
          IF ok
          THEN /\ mybuf' = [state |-> "live",
                            mem |-> Scratch(buf, count, RoundCount(count))]
               /\ deref' = deref \cup {"mybuf", "buf"}
               /\ pc' = "put_retry"
               /\ UNCHANGED <<ret, errno>>
          ELSE /\ errno' = "ENOMEM"
               /\ PutReturn(RetErr)
               /\ UNCHANGED <<mybuf, deref>>
    /\ UNCHANGED <<op, arg, buf, count, width, height, cfo, calls, probes>>

\* variant: the scratch buffer is released only when the retry succeeded
ScratchAfterRetryLeak(out) == IF out = "OK" THEN "freed" ELSE "live"

\* "i = ioctl(fd, KDFONTOP, &cfo); free(mybuf);"
ScratchAfterRetry(out) == "freed"

\* Variation on first attempt: KDFONTOP with the rounded count
put_retry ==
    /\ pc = "put_retry"
    /\ cfo' = [cfo EXCEPT !.data = "mybuf", !.charcount = RoundCount(count)]
    /\ \E out \in DevOutcomes :
          /\ calls' = Append(calls, DevCall("KDFONTOP_SET", cfo'.charcount,
                                 cfo'.width, cfo'.height, cfo'.data,
                                 mybuf.mem, out))
          /\ errno' = IF out = "OK" THEN errno ELSE out
          /\ mybuf' = [mybuf EXCEPT !.state = ScratchAfterRetry(out)]
          /\ IF out = "OK"
             THEN PutReturn(RetOk)
             ELSE pc' = "put_fontx" /\ ret' = ret
    /\ UNCHANGED <<op, arg, buf, count, width, height, probes, deref>>

\* Second attempt: PIO_FONTX; charcount and charheight are unsigned short
put_fontx ==
    /\ pc = "put_fontx"
    /\ \E out \in DevOutcomes :
          /\ calls' = Append(calls, DevCall("PIO_FONTX",
                                 count % (USHRT_MAX + 1), -1,
                                 height % (USHRT_MAX + 1), "buf", buf, out))
          /\ IF out = "OK"
             THEN /\ PutReturn(RetOk)
                  /\ errno' = errno
             ELSE /\ errno' = out
                  /\ IF Tier2Terminal(out)
                     THEN PutReturn(RetErr)
                     ELSE pc' = "put_font" /\ ret' = ret
    /\ UNCHANGED <<op, arg, buf, count, width, height, cfo, mybuf, probes,
                   deref>>

\* Third attempt: PIO_FONT
put_font ==
    /\ pc = "put_font"
    /\ \E out \in DevOutcomes :
          /\ calls' = Append(calls, DevCall("PIO_FONT", -1, -1, -1, "buf",
                                            buf, out))
          /\ errno' = IF out = "OK" THEN errno ELSE out
          /\ PutReturn(IF out = "OK" THEN RetOk ELSE RetErr)
    /\ UNCHANGED <<op, arg, buf, count, width, height, cfo, mybuf, probes,
                   deref>>

(***************************************************************************)
(* Specification                                                           *)
(***************************************************************************)
Next ==
    \/ kfont_restore_font
    \/ kfont_get_font
    \/ get_font_kdfontop
    \/ get_font_giofontx
    \/ get_font_giofont
    \/ kfont_get_fontsize
    \/ kfont_get_fontsize_return
    \/ kfont_put_font
    \/ put_kdfontop
    \/ put_malloc
    \/ put_retry
    \/ put_fontx
    \/ put_font

Spec == Init /\ [][Next]_vars

(***************************************************************************)
(* font_charheight on its own: a call with a buffer of up to MaxHGlyphs    *)
(* glyphs that holds up to MaxHNz nonzero bytes                            *)
(***************************************************************************)
HWidths == {1, 8, 9, 16}

HRows == {0, 1, 13, 30, 31}

HPositions(cnt, w) ==
    { (GlyphRows * i + r) * bytewidth(w) + x :
         i \in 0 .. cnt - 1, r \in HRows, x \in 0 .. bytewidth(w) - 1 }

HInputsOf(cnt, w) ==
    { [buf |-> [null |-> FALSE,
                size |-> cnt * GlyphRows * bytewidth(w),
                nz   |-> { <<k, 1>> : k \in S }],
       count |-> cnt, width |-> w, height |-> 0,
       wptr |-> FALSE, hptr |-> FALSE] :
         S \in SubsetsUpTo(HPositions(cnt, w), MaxHNz) }

HInputs == UNION { HInputsOf(cnt, w) : cnt \in 0 .. MaxHGlyphs, w \in HWidths }

call_font_charheight ==
    /\ pc = "idle"
    /\ \E in \in HInputs :
          /\ arg' = in
          /\ buf' = in.buf
          /\ count' = in.count
          /\ width' = in.width
    /\ op' = "charheight"
    /\ pc' = "scan"
    /\ UNCHANGED <<height, errno, cfo, mybuf, ret, calls, probes, deref>>

return_font_charheight ==
    /\ pc = "scan"
    /\ ret' = font_charheight(buf, count, width)
    /\ deref' = IF count > 0 THEN {"buf"} ELSE {}
    /\ pc' = "done"
    /\ UNCHANGED <<op, arg, buf, count, width, height, errno, cfo, mybuf,
                   calls, probes>>

NextHeight ==
    \/ call_font_charheight
    \/ return_font_charheight

SpecHeight == Init /\ [][NextHeight]_vars

(***************************************************************************)
(* Properties                                                              *)
(***************************************************************************)
\* kfont_get_font is running or has run, called directly or by
\* kfont_get_fontsize
InGet == op \in {"get", "fontsize"}

\* kfont_get_font has returned, and ret is its return value
GetReturned == (op = "get" /\ pc = "done") \/ pc = "fontsize_ret"

\* kfont_put_font has returned
PutReturned == op = "put" /\ pc = "done"

NotSupportedOut == {"ENOSYS", "EINVAL"}

\* the calls of the given request
CallsOf(req) == { i \in 1 .. Len(calls) : calls[i].req = req }

\* C1: in kfont_get_font the probes run in the order Tier 1, Tier 2,
\* Tier 3, each at most once; a probe runs only if every earlier one
\* returned NotSupported; after the first Success or HardError the function
\* has returned and that outcome is its result; the outcome of Tier 3 is
\* returned whatever it is.
C1_ProbeOrder ==
    InGet =>
      /\ Len(probes) <= 3
      /\ \A i \in 1 .. Len(probes) : probes[i].tier = i
      /\ \A i \in 1 .. Len(probes) - 1 : probes[i].ret = RetNotSupported
      /\ (Len(probes) > 0 /\ probes[Len(probes)].ret # RetNotSupported)
            => (GetReturned \/ (op = "fontsize" /\ pc = "done"))
      /\ Len(probes) = 3 => (GetReturned \/ (op = "fontsize" /\ pc = "done"))
      /\ GetReturned => (Len(probes) > 0 /\ ret = probes[Len(probes)].ret)

C1_Witness ==
    /\ op = "get" /\ pc = "done"
    /\ Len(probes) = 3
    /\ probes[3].ret = RetOk
    /\ ret = RetOk

\* C2 (as claimed): in kfont_put_font, once a device call fails with an
\* errno other than ENOSYS/EINVAL, no further device call is made and the
\* function returns -1.
C2_HardErrorTerminal ==
    op = "put" =>
      \A i \in 1 .. Len(calls) :
         calls[i].out \notin ({"OK"} \cup NotSupportedOut)
            => (i = Len(calls) /\ (pc = "done" => ret = RetErr))

\* the count-rounding retry: a second KDFONTOP call
RetryMade == Len(calls) >= 2 /\ calls[2].req = "KDFONTOP_SET"

\* C3 (as claimed): Tier 1 is invoked a second time if and only if the
\* resolved width is 8, the first attempt failed with ENOSYS or EINVAL,
\* count is not 256 and count < 512.
C3_RetryIffNotSupported ==
    (op = "put" /\ pc \in {"put_fontx", "put_font", "done"}) =>
      (RetryMade <=> /\ width = DefaultWidth
                     /\ calls[1].out \in NotSupportedOut
                     /\ count # LegacyCount
                     /\ count < DoubleCount)

\* C3 (amended): Tier 1 is invoked a second time only if the resolved width
\* is 8, the first attempt failed with EINVAL, count is not 256 and
\* count < 512; under these conditions the retry is made unless the
\* allocation of the scratch buffer fails, in which case the function
\* returns -1 after the single call; after ENOSYS there is no retry.
C3_RetryIffEinval ==
    (op = "put" /\ pc \in {"put_fontx", "put_font", "done"}) =>
      LET cond == /\ width = DefaultWidth
                  /\ calls[1].out = "EINVAL"
                  /\ count # LegacyCount
                  /\ count < DoubleCount
      IN /\ RetryMade => cond
         /\ (cond /\ ~RetryMade) =>
               /\ pc = "done"
               /\ ret = RetErr
               /\ errno = "ENOMEM"
               /\ Len(calls) = 1
               /\ mybuf.state = "none"
         /\ calls[1].out = "ENOSYS" => ~RetryMade

C3_Witness ==
    /\ PutReturned
    /\ arg.count = 100
    /\ width = DefaultWidth
    /\ calls[1].out = "EINVAL"
    /\ RetryMade

\* what the device was loaded with by a successful write call
LoadedCount(c) == IF c.req = "PIO_FONT" THEN LegacyCount ELSE c.count

LoadedWidth(c) == IF c.req = "KDFONTOP_SET" THEN c.width ELSE DefaultWidth

\* C4 (as claimed): every kfont_put_font that returns 0 has loaded the
\* device with exactly the caller's count, the resolved width and the
\* resolved height.
C4_SuccessExactGeometry ==
    (PutReturned /\ ret = RetOk) =>
      LET c == calls[Len(calls)]
      IN /\ LoadedCount(c) = arg.count
         /\ LoadedWidth(c) = width
         /\ c.height = height

\* C4 (amended): a kfont_put_font that returns 0 has made a successful
\* device call last.  If that call is the first KDFONTOP it carried exactly
\* the caller's count and the resolved width and height, and if it is
\* PIO_FONTX with count <= 65535 it carried the caller's count, the resolved
\* height and stands for width 8.  The count-rounding retry carried the
\* rounded count (256 or 512, larger than the caller's) with the resolved
\* width and height; PIO_FONTX with a larger count carried the count modulo
\* 65536, and PIO_FONT carried no geometry and loads 256 glyphs of width 8
\* whatever the count.
C4_SuccessGeometryByTier ==
    (PutReturned /\ ret = RetOk) =>
      LET n == Len(calls)
          c == calls[n]
      IN /\ n >= 1
         /\ c.out = "OK"
         /\ \A i \in 1 .. n - 1 : calls[i].out # "OK"
         /\ n = 1 =>
               /\ c.req = "KDFONTOP_SET"
               /\ c.count = arg.count
               /\ c.width = width
               /\ c.height = height
         /\ (n > 1 /\ c.req = "KDFONTOP_SET") =>
               /\ n = 2
               /\ c.count \in {LegacyCount, DoubleCount}
               /\ c.count > arg.count
               /\ c.count - arg.count < LegacyCount
               /\ c.width = DefaultWidth /\ width = DefaultWidth
               /\ c.height = height
         /\ c.req = "PIO_FONTX" =>
               /\ width = DefaultWidth
               /\ c.count = arg.count % (USHRT_MAX + 1)
               /\ c.height = height % (USHRT_MAX + 1)
               /\ arg.count <= USHRT_MAX => LoadedCount(c) = arg.count
         /\ c.req = "PIO_FONT" =>
               /\ width = DefaultWidth
               /\ c.count = 0 - 1 /\ c.width = 0 - 1 /\ c.height = 0 - 1
         /\ c.req \in {"KDFONTOP_SET", "PIO_FONTX", "PIO_FONT"}

C4_Witness ==
    /\ PutReturned /\ ret = RetOk
    /\ RetryMade
    /\ Len(calls) = 2
    /\ arg.count = 300
    /\ calls[2].count = DoubleCount

\* C5 (as claimed): with buf NULL no probe of kfont_get_font fails because
\* of the missing buffer: a probe that does not succeed either made a
\* device call that failed or rejected the count.
C5_NullBufNeverFails ==
    (InGet /\ buf.null) =>
      \A i \in 1 .. Len(probes) :
         probes[i].ret # RetOk =>
            \/ probes[i].called
            \/ (i = 2 /\ arg.count > USHRT_MAX)
            \/ (i = 3 /\ arg.count # LegacyCount)

\* C5 (amended): with buf NULL, Tier 1 and Tier 2 hand the NULL pointer to
\* the device, never read or write through it, report the geometry when the
\* device call succeeds, and fail only when the device call fails (or, for
\* Tier 2, when count > 65535); Tier 3 returns -1 without a device call.
C5_NullBufTiers ==
    (InGet /\ buf.null) =>
      /\ deref = {}
      /\ \A j \in 1 .. Len(calls) : calls[j].data = "NULL"
      /\ \A i \in 1 .. Len(probes) :
            /\ (i \in {1, 2} /\ probes[i].ret # RetOk) =>
                  \/ probes[i].called /\ probes[i].ans.out # "OK"
                  \/ (i = 2 /\ arg.count > USHRT_MAX)
            /\ (i \in {1, 2} /\ probes[i].called /\ probes[i].ans.out = "OK") =>
                  /\ probes[i].ret = RetOk
                  /\ count = probes[i].ans.count
                  /\ arg.hptr => height = probes[i].ans.height
                  /\ arg.wptr =>
                        width = IF i = 1 THEN probes[i].ans.width
                                ELSE DefaultWidth
            /\ i = 3 => (probes[i].ret = RetErr /\ ~probes[i].called)

C5_Witness ==
    /\ op = "get" /\ pc = "done"
    /\ buf.null
    /\ arg.count = LegacyCount
    /\ Len(probes) = 3
    /\ ret = RetErr

\* C6: in kfont_put_font, if the resolved width is not 8 and the first
\* KDFONTOP fails, whatever the errno, the function returns -1 and makes no
\* other device call: no retry, no scratch buffer, no PIO_FONTX, no
\* PIO_FONT.
C6_WideTier1Terminal ==
    (op = "put" /\ width # DefaultWidth /\ Len(calls) >= 1
        /\ calls[1].out # "OK") =>
      /\ pc = "done"
      /\ ret = RetErr
      /\ Len(calls) = 1
      /\ mybuf.state = "none"
      /\ CallsOf("PIO_FONTX") = {} /\ CallsOf("PIO_FONT") = {}

C6_Witness ==
    /\ PutReturned
    /\ width = 16
    /\ calls[1].out = "ENOSYS"
    /\ ret = RetErr

\* C7: kfont_get_fontsize returns the count the device reported when
\* kfont_get_font succeeded and 256 whenever it failed; it never returns an
\* error value.
C7_FontsizeFallback ==
    (op = "fontsize" /\ pc = "done") =>
      LET last == probes[Len(probes)]
      IN /\ last.ret = RetOk => ret = last.ans.count
         /\ last.ret # RetOk => ret = LegacyCount
         /\ ret >= 0

C7_Witness ==
    /\ op = "fontsize" /\ pc = "done"
    /\ Len(probes) = 3
    /\ \A i \in 1 .. 3 : probes[i].ret # RetOk
    /\ ret = LegacyCount

\* C8: in kfont_put_font with width 8, when every KDFONTOP call (the first
\* and the retry, if made) and PIO_FONTX failed with ENOSYS or EINVAL,
\* PIO_FONT is called exactly once, with the caller's buffer unmodified,
\* and the function returns 0 if it succeeds and -1 otherwise.
C8_Tier3LastResort ==
    (/\ PutReturned
     /\ width = DefaultWidth
     /\ \A i \in CallsOf("KDFONTOP_SET") : calls[i].out \in NotSupportedOut
     /\ \E i \in CallsOf("PIO_FONTX") : calls[i].out \in NotSupportedOut) =>
      LET n == Len(calls)
      IN /\ CallsOf("PIO_FONT") = {n}
         /\ calls[n].data = "buf"
         /\ calls[n].mem = arg.buf
         /\ buf = arg.buf
         /\ ret = IF calls[n].out = "OK" THEN RetOk ELSE RetErr

C8_Witness ==
    /\ PutReturned
    /\ arg.count = LegacyCount
    /\ width = DefaultWidth
    /\ Len(calls) = 3
    /\ calls[3].req = "PIO_FONT"
    /\ calls[3].out = "OK"
    /\ ret = RetOk

\* C9: kfont_get_font and kfont_put_font return 0 or -1 only; the value 1
\* with which a probe says NotSupported is never their return value.
C9_PublicReturnValues ==
    (GetReturned \/ PutReturned) => ret \in {RetOk, RetErr}

C9_Witness ==
    /\ op = "get" /\ pc = "done"
    /\ Len(probes) = 3
    /\ probes[3].called
    /\ probes[3].ans.out = "ENOSYS"
    /\ ret = RetErr

\* C10: when Tier 1 returns NotSupported and Tier 2 succeeds,
\* kfont_get_font returns 0 with *count and *height as the device reported
\* them and *width 8 (each written when its pointer is not NULL), and
\* GIO_FONT is never called.
C10_Tier2Descriptor ==
    (InGet /\ Len(probes) >= 2 /\ probes[1].ret = RetNotSupported
        /\ probes[2].ret = RetOk) =>
      /\ Len(probes) = 2
      /\ pc \in {"done", "fontsize_ret"}
      /\ GetReturned => ret = RetOk
      /\ count = probes[2].ans.count
      /\ arg.hptr => height = probes[2].ans.height
      /\ arg.wptr => width = DefaultWidth
      /\ CallsOf("GIO_FONT") = {}

C10_Witness ==
    /\ op = "get" /\ pc = "done"
    /\ arg.wptr /\ arg.hptr
    /\ Len(probes) = 2
    /\ probes[2].ans.width = 16
    /\ ret = RetOk
    /\ count = 128 /\ width = DefaultWidth /\ height = 14

\* C11: kfont_restore_font makes exactly one device call, PIO_FONTRESET,
\* and returns 0 if it succeeds and -1 if it fails; it makes no second
\* attempt and no other call.
C11_RestoreSingleCall ==
    op = "restore" =>
      /\ pc = "done"
      /\ Len(calls) = 1
      /\ calls[1].req = "PIO_FONTRESET"
      /\ calls[1].out = "OK" => ret = RetOk
      /\ calls[1].out # "OK" => (ret = RetErr /\ errno = calls[1].out)
      /\ probes = <<>>
      /\ mybuf.state = "none"

C11_Witness ==
    /\ op = "restore" /\ pc = "done"
    /\ calls[1].out = "EIO"
    /\ ret = RetErr

\* the byte indices at which two sparse buffers can differ from each other
\* or from zero, and the first and last index of the copied prefix and of
\* the padding
ProbeIndices(a, b, n, size) ==
    { k \in { p[1] : p \in a.nz } \cup { p[1] : p \in b.nz }
              \cup {0, n - 1, n, size - 1} : k >= 0 /\ k < size }

\* C12: the count-rounding retry calls KDFONTOP with count 256 when the
\* caller's count is below 256 and 512 when it is in 257..511, with the
\* width and height of the first attempt, and with a scratch buffer of
\* 32 * rounded count bytes whose first 32 * count bytes are the caller's
\* and whose other bytes are zero.
C12_RetryCountAndPadding ==
    (op = "put" /\ RetryMade) =>
      LET c  == calls[2]
          ct == IF arg.count < LegacyCount THEN LegacyCount ELSE DoubleCount
          n  == GlyphRows * arg.count
      IN /\ arg.count < DoubleCount /\ arg.count # LegacyCount
         /\ c.count = ct
         /\ c.width = calls[1].width
         /\ c.height = calls[1].height
         /\ c.data = "mybuf"
         /\ c.mem.size = GlyphRows * ct
         /\ ~c.mem.null
         /\ \A p \in c.mem.nz : p[1] >= 0 /\ p[1] < c.mem.size
         /\ \A k \in ProbeIndices(arg.buf, c.mem, n, c.mem.size) :
               Byte(c.mem, k) = IF k < n THEN Byte(arg.buf, k) ELSE 0

C12_Witness ==
    /\ op = "put" /\ RetryMade
    /\ arg.count = 100
    /\ arg.height = 0
    /\ calls[2].count = LegacyCount
    /\ Byte(calls[2].mem, GlyphRows * 99 + 13) = 255
    /\ Byte(calls[2].mem, GlyphRows * 100 + 13) = 0

\* C13: the scratch buffer of kfont_put_font is allocated at most once per
\* call and released on every exit path: it is live only between the
\* successful malloc and the end of the retry step, no allocation is live
\* when the function has returned, and every device call that is handed
\* the scratch buffer gets it while it is live.
C13_ScratchReleased ==
    op = "put" =>
      /\ pc = "done" => mybuf.state \in {"none", "freed"}
      /\ mybuf.state = "live" => pc = "put_retry"
      /\ pc \in {"put_kdfontop", "put_malloc"} => mybuf.state = "none"
      /\ \A i \in 1 .. Len(calls) :
            /\ calls[i].data = "mybuf" => calls[i].scratch = "live"
            /\ calls[i].data = "mybuf" => i = 2
            /\ calls[i].req \in {"PIO_FONTX", "PIO_FONT"} => calls[i].data = "buf"

C13_Witness ==
    /\ PutReturned
    /\ mybuf.state = "freed"
    /\ Len(calls) = 4
    /\ calls[2].data = "mybuf"
    /\ calls[2].out = "EINVAL"

RowOf(k, w) == ((k \div bytewidth(w)) % GlyphRows) + 1

\* the largest row that holds a nonzero byte in one of the first cnt glyphs
\* of b, 0 if there is none
MaxUsedRow(b, cnt, w) ==
    LET rows == { RowOf(p[1], w) :
                    p \in { q \in b.nz :
                              q[1] < cnt * GlyphRows * bytewidth(w) } }
    IN IF rows = {} THEN 0
       ELSE CHOOSE m \in rows : \A r \in rows : r <= m

\* C15: font_charheight(buf, count, width) returns the largest 1-based row
\* index in 1..32 in which some glyph has a nonzero byte, and 0 when every
\* byte is zero: the result is in 0..32, an all-zero buffer gives 0 and a
\* buffer whose only nonzero byte lies in row r (0-indexed) gives r + 1.
C15_CharheightIsMaxUsedRow ==
    (op = "charheight" /\ pc = "done") =>
      /\ ret = MaxUsedRow(arg.buf, arg.count, arg.width)
      /\ ret \in 0 .. GlyphRows
      /\ arg.buf.nz = {} => ret = 0
      /\ \A r \in 0 .. GlyphRows - 1 :
            (/\ arg.buf.nz # {}
             /\ \A p \in arg.buf.nz :
                   (p[1] \div bytewidth(arg.width)) % GlyphRows = r)
              => ret = r + 1

C15_Witness ==
    /\ op = "charheight" /\ pc = "done"
    /\ arg.count = 2 /\ arg.width = 9
    /\ Cardinality(arg.buf.nz) = 2
    /\ Byte(arg.buf, (GlyphRows * 0 + 30) * 2 + 1) = 1
    /\ Byte(arg.buf, (GlyphRows * 1 + 13) * 2 + 0) = 1
    /\ ret = 31

\* C16: kfont_put_font resolves its defaults before the first device call:
\* width 0 becomes 8, height 0 becomes font_charheight(buf, count, resolved
\* width), a nonzero width or height is kept; the first KDFONTOP carries the
\* caller's count, the resolved width and height and the caller's buffer.
C16_DefaultsResolved ==
    op = "put" =>
      LET w == IF arg.width = 0 THEN DefaultWidth ELSE arg.width
      IN /\ width = w
         /\ arg.height # 0 => height = arg.height
         /\ pc = "put_kdfontop" =>
               /\ calls = <<>>
               /\ arg.height = 0 =>
                     height = font_charheight(arg.buf, arg.count, w)
               /\ cfo = [width |-> w, height |-> height,
                         charcount |-> arg.count, data |-> "buf"]
         /\ Len(calls) >= 1 =>
               /\ calls[1].req = "KDFONTOP_SET"
               /\ calls[1].count = arg.count
               /\ calls[1].width = w
               /\ calls[1].height = height
               /\ calls[1].data = "buf"
               /\ calls[1].mem = arg.buf

C16_Witness ==
    /\ op = "put"
    /\ arg.width = 0 /\ arg.height = 0
    /\ arg.count = 300
    /\ Len(calls) = 1
    /\ calls[1].width = DefaultWidth
    /\ calls[1].height = 14

\* C17: the Tier 3 read probe, reached only after Tier 1 and Tier 2
\* returned NotSupported, returns -1 without a device call when the count
\* asked for is not 256 or buf is NULL; when it succeeds the descriptor is
\* count 256, width 8, height 0; it never returns NotSupported.
C17_Tier3Read ==
    (InGet /\ Len(probes) = 3) =>
      LET p == probes[3]
      IN /\ probes[1].ret = RetNotSupported
         /\ probes[2].ret = RetNotSupported
         /\ (arg.count # LegacyCount \/ buf.null) =>
               /\ p.ret = RetErr
               /\ ~p.called
               /\ CallsOf("GIO_FONT") = {}
         /\ p.ret \in {RetOk, RetErr}
         /\ p.ret = RetOk =>
               /\ p.called /\ p.ans.out = "OK"
               /\ count = LegacyCount
               /\ arg.wptr => width = DefaultWidth
               /\ arg.hptr => height = 0

C17_Witness ==
    /\ op = "get" /\ pc = "done"
    /\ Len(probes) = 3
    /\ arg.wptr /\ arg.hptr
    /\ arg.width = 7 /\ arg.height = 7
    /\ probes[3].ans.count = 128
    /\ ret = RetOk
    /\ count = LegacyCount /\ width = DefaultWidth /\ height = 0

\* C18: in kfont_get_font, when Tier 1 returned NotSupported and the count
\* asked for is above 65535, the Tier 2 probe returns -1 without a device
\* call, Tier 3 is not run and the function returns -1.
C18_Tier2Ceiling ==
    (InGet /\ Len(probes) >= 2 /\ arg.count > USHRT_MAX) =>
      /\ probes[1].ret = RetNotSupported
      /\ probes[2].ret = RetErr
      /\ ~probes[2].called
      /\ CallsOf("GIO_FONTX") = {}
      /\ Len(probes) = 2
      /\ CallsOf("GIO_FONT") = {}
      /\ GetReturned
      /\ ret = RetErr

C18_Witness ==
    /\ op = "get" /\ pc = "done"
    /\ arg.count = USHRT_MAX + 1
    /\ ~buf.null
    /\ Len(probes) = 2
    /\ Len(calls) = 1
    /\ ret = RetErr

\* C19: kfont_get_font writes *count, *width and *height only in the probe
\* that succeeds: while no probe has succeeded the three hold the caller's
\* values, every device call is made with the caller's count, and when the
\* function returns -1 the caller's count, width and height are as before
\* the call.
C19_OutputsOnlyOnSuccess ==
    InGet =>
      /\ (\A i \in 1 .. Len(probes) : probes[i].ret # RetOk) =>
            /\ count = arg.count
            /\ width = arg.width
            /\ height = arg.height
      /\ \A j \in 1 .. Len(calls) :
            calls[j].req \in {"KDFONTOP_GET", "GIO_FONTX"} =>
               calls[j].count = arg.count
      /\ ~arg.wptr => width = arg.width
      /\ ~arg.hptr => height = arg.height
      /\ (GetReturned /\ ret = RetErr) =>
            /\ count = arg.count
            /\ width = arg.width
            /\ height = arg.height

C19_Witness ==
    /\ op = "get" /\ pc = "done"
    /\ arg.wptr /\ arg.hptr
    /\ arg.count = LegacyCount /\ arg.width = 7 /\ arg.height = 7
    /\ Len(probes) = 3
    /\ probes[3].called
    /\ ret = RetErr
    /\ count = LegacyCount /\ width = 7 /\ height = 7

\* C20: whenever the count-rounding retry has copied the caller's glyphs
\* into the scratch buffer, the 32 * count bytes copied fit into the scratch
\* buffer of 32 * rounded count bytes and lie within the caller's buffer:
\* the copy is reached only with count < 512 and count # 256, and the
\* rounded count is never below count.
C20_CopyFitsScratch ==
    (op = "put" /\ mybuf.state # "none") =>
      /\ count < DoubleCount /\ count # LegacyCount
      /\ width = DefaultWidth
      /\ mybuf.mem.size \in {GlyphRows * LegacyCount, GlyphRows * DoubleCount}
      /\ GlyphRows * count <= mybuf.mem.size
      /\ GlyphRows * count <= buf.size
      /\ \A p \in mybuf.mem.nz : p[1] < GlyphRows * count
      /\ {"buf", "mybuf"} \subseteq deref

C20_Witness ==
    /\ op = "put" /\ pc = "put_retry"
    /\ mybuf.state = "live"
    /\ count = 300
    /\ mybuf.mem.size = GlyphRows * DoubleCount
    /\ mybuf.mem.nz # {}

=============================================================================
